---------------------------- MODULE Spec2Model ----------------------------
(***************************************************************************)
(* A model of the client-side generation pipelines of nano-banana-pro:     *)
(*   - src/unnamed/part_000: the LandingPage component (upload, image and  *)
(*     text generation, download, local history);                          *)
(*   - src/index.tsx: the AppEditor component (editor variant).            *)
(*                                                                         *)
(* Strings are sequences of tokens: "data:image/png;base64,abcd" is        *)
(* <<"data:", "image/", "png", ";base64,", "abcd">>.  startsWith, includes *)
(* and concatenation are computed on the tokens.  A nullable value is a    *)
(* sequence of length at most one: Null is <<>>, a value x is <<x>>.       *)
(***************************************************************************)
EXTENDS Integers, Sequences, FiniteSets, TLC

\* ------------------------------------------------------------ bounds
\* Concurrent FileReader / compression tasks of handleImageUpload.
MaxReads == 2
\* Generation requests of one pipeline in flight when handlers are called directly.
MaxInFlight == 2
\* History appends of one user session (each reads Date.now(), which advances).
MaxSaves == 1
\* History appends when saveToHistory is exercised on its own.
MaxHistSaves == 12
\* Credits one editor session may spend (bounds the credit counter).
MaxSpent == 20

\* ------------------------------------------------------------ program constants
HistoryLimit == 10
MiB == 1048576
UploadLimitMiB == 5
CompressAboveMiB == 1
InitialCredits == 250
ProCost == 10
BasicCost == 2

\* ------------------------------------------------------------ nullable values
Null == <<>>
Some(x) == <<x>>
Val(o) == o[1]

\* ------------------------------------------------------------ strings
\* String.prototype.startsWith
StartsWith(s, p) == Len(s) >= Len(p) /\ SubSeq(s, 1, Len(p)) = p
\* String.prototype.includes, for a one-token needle
Includes(s, tok) == \E i \in 1..Len(s) : s[i] = tok
IsSpace(tok) == tok = " "
\* String.prototype.trim: drop leading and trailing whitespace
RECURSIVE TrimStart(_)
TrimStart(s) == IF s # <<>> /\ IsSpace(Head(s)) THEN TrimStart(Tail(s)) ELSE s
RECURSIVE TrimEnd(_)
TrimEnd(s) ==
  IF s # <<>> /\ IsSpace(s[Len(s)]) THEN TrimEnd(SubSeq(s, 1, Len(s) - 1)) ELSE s
Trim(s) == TrimEnd(TrimStart(s))
\* Array.prototype.slice(0, n)
Slice0(s, n) == SubSeq(s, 1, IF Len(s) < n THEN Len(s) ELSE n)

\* ------------------------------------------------------------ messages
MsgInvalidType == <<"Please select a valid image file">>
MsgTooLarge == <<"Image file size cannot exceed 5MB">>
MsgReadFailed == <<"Image reading failed, please try again">>
MsgUploadFirst == <<"Please upload an image first">>
MsgEnterDescription == <<"Please enter a description">>
MsgGenerationFailed == <<"Generation failed">>
\* Number-to-string conversion of a template literal, for the statuses modelled.
StatusText(status) ==
  CASE status = 200 -> "200"
    [] status = 500 -> "500"
    [] status = 502 -> "502"
    [] status = 504 -> "504"
    [] OTHER -> "0"
MsgApiCallFailed(status) == <<"API call failed: ", StatusText(status)>>
\* messages of errors the runtime throws
MsgFailedToFetch == <<"Failed to ", "fetch">>
MsgJsonSyntax == <<"Unexpected token < in JSON at position 0">>

base64Prefix == <<"data:", "image/", "png", ";base64,">>

\* ------------------------------------------------------------ files and images
\* A selected File: its declared type, its size in bytes, its content.
File(type, size, data) == [type |-> type, size |-> size, data |-> data]
TypePng == <<"image/", "png">>
TypeText == <<"text/", "plain">>
Files ==
  { File(TypePng, CompressAboveMiB * MiB, "A"),
    File(TypePng, CompressAboveMiB * MiB + 1, "C"),
    File(TypePng, UploadLimitMiB * MiB, "B"),
    File(TypePng, UploadLimitMiB * MiB + 1, "B"),
    File(TypeText, 10, "A"),
    File(TypeText, UploadLimitMiB * MiB + 1, "A") }

\* FileReader.readAsDataURL: "data:<type>;base64,<content>"
DataURL(file) == <<"data:">> \o file.type \o <<";base64,">> \o <<file.data>>
\* The payload of a data URL (what follows ";base64,").
RECURSIVE PayloadOf(_)
PayloadOf(url) ==
  IF url = <<>> THEN <<>>
  ELSE IF Head(url) = ";base64," THEN Tail(url) ELSE PayloadOf(Tail(url))
\* canvas.toDataURL("image/jpeg", quality) of the image drawn at most maxWidth wide
ToDataURLJpeg(url, quality, maxWidth) ==
  <<"data:", "image/", "jpeg", ";base64,", "jpeg:", quality, maxWidth>> \o PayloadOf(url)
CompressQuality == "0.8"
CompressMaxWidth == "1024"

\* A well-formed base64 data URI: "data:image/<subtype>;base64,<payload>", the
\* payload free of the URI's own delimiters.
Delimiters == {"data:", "image/", "text/", ";base64,"}
IsDataURI(s) ==
  /\ Len(s) >= 5
  /\ s[1] = "data:"
  /\ s[2] \in {"image/", "text/"}
  /\ s[3] \notin Delimiters
  /\ s[4] = ";base64,"
  /\ \A i \in 5..Len(s) : s[i] \notin Delimiters

\* ------------------------------------------------------------ responses
\* A body as the handlers read it.  kind: "text" (not JSON, json() rejects) or
\* "object" (a JSON object); a field that is absent is Null.
Body(kind, success, image, error, processingTime) ==
  [kind |-> kind, success |-> success, image |-> image, error |-> error,
   processingTime |-> processingTime]
NoFields(kind) == Body(kind, Null, Null, Null, Null)
\* What a fetch of an endpoint settles with: net = FALSE is a rejected fetch.
Http(status, body) == [net |-> TRUE, status |-> status, body |-> body]
NetworkFailure == [net |-> FALSE, status |-> 0, body |-> NoFields("text")]

RawImage == <<"abcd">>
PngImage == base64Prefix \o <<"abcd">>
JpegImage == <<"data:", "image/", "jpeg", ";base64,", "abcd">>
Boom == <<"boom">>
TimedOut == <<"Gateway ", "timeout">>

Responses ==
  { NetworkFailure,
    Http(200, Body("object", Some(TRUE), Some(RawImage), Null, Some("42"))),
    Http(200, Body("object", Some(TRUE), Some(PngImage), Null, Some("42"))),
    Http(200, Body("object", Some(TRUE), Some(JpegImage), Null, Null)),
    Http(200, Body("object", Some(TRUE), Null, Null, Null)),
    Http(200, Body("object", Some(FALSE), Some(RawImage), Some(Boom), Null)),
    Http(500, Body("object", Null, Null, Some(Boom), Null)),
    Http(500, Body("object", Some(TRUE), Some(RawImage), Null, Null)),
    Http(502, NoFields("text")),
    Http(504, Body("object", Null, Null, Some(TimedOut), Null)) }

\* Response.ok
HttpOk(status) == status >= 200 /\ status <= 299
\* JavaScript truthiness of a field holding a boolean, and of one holding a string
TruthyBool(o) == o # Null /\ Val(o)
TruthyStr(o) == o # Null /\ Val(o) # <<>>

\* What the try block of a handler ends with: a value, or a thrown Error.
Returned(image, time) ==
  [ok |-> TRUE, image |-> image, time |-> time, name |-> "", message |-> <<>>]
Thrown(name, message) ==
  [ok |-> FALSE, image |-> <<>>, time |-> "", name |-> name, message |-> message]
\* `${result.processingTime}`
TimeText(o) == IF o = Null THEN "undefined" ELSE Val(o)

\* ------------------------------------------------------------ state
VARIABLES
  \* what the session is given: which root component is mounted, and which files,
  \* prompts and responses the user and the servers supply (see Sessions)
  session,
  \* LandingPage state (useState)
  originalImage, generatedImage, isGenerating, error, debugInfo,
  promptText, textGeneratedImage, isGeneratingText, textError,
  \* localStorage slot "coloring-book-history", and Date.now()
  storage, now,
  \* asynchronous work of LandingPage: FileReader/compression tasks, requests in flight
  reads, imgReqs, textReqs,
  \* AppEditor state (useState) and its asynchronous work
  mode, model, prompt, uploadedImage, resultImage, isLoading, credits,
  edReads, edReqs,
  \* the file the browser saved last for a download link: its name and its href
  saved,
  \* history variables: the outcome of each pipeline's last settled attempt, the
  \* results handed to saveToHistory, the slot as the session found it, and the
  \* file of the last selection that passed the checks of handleImageUpload
  \* (forgotten when a file read fails)
  imgOutcome, textOutcome, appended, store0, lastFile

\* The root component mounted: LandingPage (part_000) or AppEditor (index.tsx)
app == IF session = "editor" THEN "editor" ELSE "landing"

landingVars ==
  <<originalImage, generatedImage, isGenerating, error, debugInfo,
    promptText, textGeneratedImage, isGeneratingText, textError,
    storage, now, reads, imgReqs, textReqs, imgOutcome, textOutcome, appended>>
imageVars == <<originalImage, generatedImage, isGenerating, error, reads, imgReqs, imgOutcome>>
textVars == <<promptText, textGeneratedImage, isGeneratingText, textError, textReqs, textOutcome>>
storeVars == <<storage, now, appended>>
editorVars ==
  <<mode, model, prompt, uploadedImage, resultImage, isLoading, credits, edReads, edReqs>>
vars == <<session, landingVars, editorVars, saved, store0, lastFile>>

\* A file saved through a download link: <name>-<Date.now()>.png with the href's content
SavedFile(name, href) == [name |-> name, href |-> href]
Remove(seq, i) == SubSeq(seq, 1, i - 1) \o SubSeq(seq, i + 1, Len(seq))

\* ------------------------------------------------------------ history store
GenerationResult(orig, gen, ts) ==
  [originalImage |-> orig, generatedImage |-> gen, timestamp |-> ts]
\* The slot: absent, or a string that is not JSON, or JSON that is not an array, or
\* the JSON of an array of records.
Slot(kind, items) == [kind |-> kind, items |-> items]
SlotAbsent == Slot("absent", <<>>)
SlotUnparsable == Slot("unparsable", <<>>)
SlotNotArray == Slot("notarray", <<>>)
\* JSON.stringify of an array of records
JSONstringify(items) == Slot("array", items)
OldSource == DataURL(File(TypePng, 10, "old"))
OldResult(ts) == GenerationResult(OldSource, base64Prefix \o <<"old">>, ts)
\* A slot filled by earlier sessions: HistoryLimit records, most recent first.
SlotFull == JSONstringify([i \in 1..HistoryLimit |-> OldResult(HistoryLimit + 1 - i)])
InitialSlots == {SlotAbsent, SlotUnparsable, SlotNotArray, SlotFull}

\* loadHistory without its catch: a slot that cannot be parsed yields no array
loadHistory_NoCatch(slot) ==
  CASE slot.kind = "absent" -> [isArray |-> TRUE, items |-> <<>>]
    [] slot.kind = "unparsable" -> [isArray |-> FALSE, items |-> <<>>]
    [] slot.kind = "notarray" -> [isArray |-> FALSE, items |-> <<>>]
    [] OTHER -> [isArray |-> TRUE, items |-> slot.items]

\* What loadHistory returns: an array, or a parsed value that is no array.
Loaded(isArray, items) == [isArray |-> isArray, items |-> items]
loadHistory(slot) ==
  CASE slot.kind = "absent" -> Loaded(TRUE, <<>>)          \* history ? ... : []
    [] slot.kind = "unparsable" -> Loaded(TRUE, <<>>)      \* JSON.parse throws: catch
    [] slot.kind = "notarray" -> Loaded(FALSE, <<>>)       \* JSON.parse returns it
    [] OTHER -> Loaded(TRUE, slot.items)
\* saveToHistory with push in place of unshift: the result goes last
saveToHistory_Push(slot, result) ==
  LET history == loadHistory(slot) IN
  IF ~history.isArray THEN slot
  ELSE JSONstringify(Slice0(history.items \o <<result>>, HistoryLimit))

\* The slot after saveToHistory(result): unshift throws on a value that is no array,
\* and the catch leaves the slot as it was.
saveToHistory(slot, result) ==
  LET history == loadHistory(slot) IN
  IF ~history.isArray THEN slot
  ELSE JSONstringify(Slice0(<<result>> \o history.items, HistoryLimit))

\* ------------------------------------------------------------ LandingPage: upload
\* The checks with >= in the size test: a file of exactly the limit is rejected
ValidateUpload_LimitExclusive(file) ==
  IF ~StartsWith(file.type, <<"image/">>) THEN Some(MsgInvalidType)
  ELSE IF file.size >= UploadLimitMiB * MiB THEN Some(MsgTooLarge)
  ELSE Null

\* The checks of handleImageUpload: the message of the rejection, or Null.
ValidateUpload(file) ==
  IF ~StartsWith(file.type, <<"image/">>) THEN Some(MsgInvalidType)
  ELSE IF file.size > UploadLimitMiB * MiB THEN Some(MsgTooLarge)
  ELSE Null

ReadTask(file, stage) == [file |-> file, stage |-> stage]

\* handleImageUpload resetting the generated image before its checks
handleImageUpload_ResetsFirst(sel) ==
  /\ app = "landing"
  /\ IF sel = Null
       THEN UNCHANGED <<error, reads, generatedImage, lastFile>>
       ELSE /\ generatedImage' = Null
            /\ IF ValidateUpload(Val(sel)) # Null
                 THEN /\ error' = ValidateUpload(Val(sel))
                      /\ UNCHANGED <<reads, lastFile>>
                 ELSE /\ Len(reads) < MaxReads
                      /\ reads' = Append(reads, ReadTask(Val(sel), "reading"))
                      /\ lastFile' = sel
                      /\ UNCHANGED error
  /\ UNCHANGED <<originalImage, isGenerating, debugInfo, imgReqs,
                 imgOutcome, textVars, storeVars, editorVars, session, store0, saved>>

\* handleImageUpload, up to reader.readAsDataURL(file); sel is event.target.files?.[0]
handleImageUpload(sel) ==
  /\ app = "landing"
  /\ IF sel = Null
       THEN UNCHANGED <<error, reads, lastFile>>
       ELSE IF ValidateUpload(Val(sel)) # Null
         THEN /\ error' = ValidateUpload(Val(sel))
              /\ UNCHANGED <<reads, lastFile>>
         ELSE /\ Len(reads) < MaxReads
              /\ reads' = Append(reads, ReadTask(Val(sel), "reading"))
              /\ lastFile' = sel
              /\ UNCHANGED error
  /\ UNCHANGED <<originalImage, generatedImage, isGenerating, debugInfo, imgReqs,
                 imgOutcome, textVars, storeVars, editorVars, session, store0, saved>>

\* The end of reader.onload without setGeneratedImage(null)
FinishUpload_KeepsResult(i, processedImage, info) ==
  /\ originalImage' = Some(processedImage)
  /\ error' = Null
  /\ debugInfo' = info
  /\ reads' = Remove(reads, i)
  /\ UNCHANGED <<generatedImage, isGenerating, imgReqs, imgOutcome, textVars, storeVars,
                 editorVars, session, lastFile, store0, saved>>

\* The end of reader.onload: the three setters after the compression branch.
FinishUpload(i, processedImage, info) ==
  /\ originalImage' = Some(processedImage)
  /\ generatedImage' = Null
  /\ error' = Null
  /\ debugInfo' = info
  /\ reads' = Remove(reads, i)
  /\ UNCHANGED <<isGenerating, imgReqs, imgOutcome, textVars, storeVars, editorVars,
                 session, lastFile, store0, saved>>

\* reader.onload with >= in the size test: a file of exactly 1 MiB is compressed
ReaderOnLoad_CompressesAtLimit(i) ==
  /\ app = "landing"
  /\ i \in 1..Len(reads)
  /\ reads[i].stage = "reading"
  /\ IF reads[i].file.size >= CompressAboveMiB * MiB
       THEN /\ reads' = [reads EXCEPT ![i].stage = "compressing"]
            /\ UNCHANGED <<originalImage, generatedImage, isGenerating, error, debugInfo,
                           imgReqs, imgOutcome, textVars, storeVars, editorVars, session, lastFile,
                           store0, saved>>
       ELSE FinishUpload(i, DataURL(reads[i].file), <<"Image uploaded">>)

\* reader.onload: a file of at most 1 MiB is used as read; a larger one awaits
\* compressImage(result, 0.8, 1024).
ReaderOnLoad(i) ==
  /\ app = "landing"
  /\ i \in 1..Len(reads)
  /\ reads[i].stage = "reading"
  /\ IF reads[i].file.size > CompressAboveMiB * MiB
       THEN /\ reads' = [reads EXCEPT ![i].stage = "compressing"]
            /\ UNCHANGED <<originalImage, generatedImage, isGenerating, error, debugInfo,
                           imgReqs, imgOutcome, textVars, storeVars, editorVars, session, lastFile,
                           store0, saved>>
       ELSE FinishUpload(i, DataURL(reads[i].file), <<"Image uploaded">>)

\* reader.onerror
ReaderOnError(i) ==
  /\ app = "landing"
  /\ i \in 1..Len(reads)
  /\ reads[i].stage = "reading"
  /\ error' = Some(MsgReadFailed)
  /\ reads' = Remove(reads, i)
  /\ lastFile' = Null
  /\ UNCHANGED <<originalImage, generatedImage, isGenerating, debugInfo, imgReqs,
                 imgOutcome, textVars, storeVars, editorVars, session, store0, saved>>

\* compressImage resolves: img.onload with a canvas context
compressImage(base64, quality, maxWidth) == ToDataURLJpeg(base64, quality, maxWidth)
CompressResolved(i) ==
  /\ app = "landing"
  /\ i \in 1..Len(reads)
  /\ reads[i].stage = "compressing"
  /\ FinishUpload(i, compressImage(DataURL(reads[i].file), CompressQuality, CompressMaxWidth),
                  <<"Image compressed">>)

\* compressImage rejects and the upload is given up with a message
CompressRejected_GivesUp(i) ==
  /\ app = "landing"
  /\ i \in 1..Len(reads)
  /\ reads[i].stage = "compressing"
  /\ error' = Some(<<"Image compression failed">>)
  /\ reads' = Remove(reads, i)
  /\ UNCHANGED <<originalImage, generatedImage, isGenerating, debugInfo, imgReqs,
                 imgOutcome, textVars, storeVars, editorVars, session, lastFile, store0, saved>>

\* compressImage rejects (img.onerror, or no canvas context): the catch keeps the
\* image as read
CompressRejected(i) ==
  /\ app = "landing"
  /\ i \in 1..Len(reads)
  /\ reads[i].stage = "compressing"
  /\ FinishUpload(i, DataURL(reads[i].file), <<"Image uploaded", "(uncompressed)">>)

\* ------------------------------------------------------------ LandingPage: image pipeline
\* The try block testing result.image only, not result.success
ColoringBookTry_IgnoresSuccess(resp) ==
  LET result == resp.body IN
  IF ~resp.net THEN Thrown("TypeError", MsgFailedToFetch)
  ELSE IF result.kind = "text" THEN Thrown("SyntaxError", MsgJsonSyntax)
  ELSE IF ~HttpOk(resp.status) THEN
    Thrown("Error", IF TruthyStr(result.error) THEN Val(result.error)
                    ELSE MsgApiCallFailed(resp.status))
  ELSE IF TruthyStr(result.image) THEN
    Returned(IF ~StartsWith(Val(result.image), base64Prefix)
               THEN base64Prefix \o Val(result.image)
               ELSE Val(result.image),
             TimeText(result.processingTime))
  ELSE Thrown("Error", IF TruthyStr(result.error) THEN Val(result.error)
                       ELSE MsgGenerationFailed)

\* The try block prepending the prefix without the startsWith test
ColoringBookTry_AlwaysPrepends(resp) ==
  LET result == resp.body IN
  IF ~resp.net THEN Thrown("TypeError", MsgFailedToFetch)
  ELSE IF result.kind = "text" THEN Thrown("SyntaxError", MsgJsonSyntax)
  ELSE IF ~HttpOk(resp.status) THEN
    Thrown("Error", IF TruthyStr(result.error) THEN Val(result.error)
                    ELSE MsgApiCallFailed(resp.status))
  ELSE IF TruthyBool(result.success) /\ TruthyStr(result.image) THEN
    Returned(base64Prefix \o Val(result.image), TimeText(result.processingTime))
  ELSE Thrown("Error", IF TruthyStr(result.error) THEN Val(result.error)
                       ELSE MsgGenerationFailed)

\* The try block of generateColoringBook from the settled API fetch on: json(),
\* the status check, the success check and the normalization of the image.
ColoringBookTry(resp) ==
  LET result == resp.body IN
  IF ~resp.net THEN Thrown("TypeError", MsgFailedToFetch)
  ELSE IF result.kind = "text" THEN Thrown("SyntaxError", MsgJsonSyntax)
  ELSE IF ~HttpOk(resp.status) THEN
    Thrown("Error", IF TruthyStr(result.error) THEN Val(result.error)
                    ELSE MsgApiCallFailed(resp.status))
  ELSE IF TruthyBool(result.success) /\ TruthyStr(result.image) THEN
    Returned(IF ~StartsWith(Val(result.image), base64Prefix)
               THEN base64Prefix \o Val(result.image)
               ELSE Val(result.image),
             TimeText(result.processingTime))
  ELSE Thrown("Error", IF TruthyStr(result.error) THEN Val(result.error)
                       ELSE MsgGenerationFailed)

\* debugDetails without the classification of the message
ColoringBookDebugDetails_Unclassified(thrown) ==
  <<"Error type: ", thrown.name, "Error message: ">> \o thrown.message
    \o <<"Time: ", "<toISOString>">>

\* debugDetails of the catch block of generateColoringBook
ColoringBookDebugDetails(thrown) ==
  <<"Error type: ", thrown.name, "Error message: ">> \o thrown.message
    \o <<"Time: ", "<toISOString>">>
    \o (IF Includes(thrown.message, "timeout") \/ Includes(thrown.message, "TIMEOUT")
          THEN <<"Suggestion: Image processing timeout, please try using a smaller image or retry later">>
        ELSE IF Includes(thrown.message, "fetch")
          THEN <<"Possible cause: Network connection issue or API service unavailable">>
        ELSE <<>>)

ImgRequest(orig, stage) == [orig |-> orig, stage |-> stage]

\* generateColoringBook, up to its first await
generateColoringBook ==
  /\ app = "landing"
  /\ IF originalImage = Null
       THEN /\ error' = Some(MsgUploadFirst)
            /\ UNCHANGED <<isGenerating, debugInfo, imgReqs>>
       ELSE /\ Len(imgReqs) < MaxInFlight
            /\ isGenerating' = TRUE
            /\ error' = Null
            /\ debugInfo' = <<"Starting to generate line art...">>
            /\ imgReqs' = Append(imgReqs, ImgRequest(Val(originalImage), "blob"))
  /\ UNCHANGED <<originalImage, generatedImage, reads, imgOutcome, textVars, storeVars,
                 editorVars, session, lastFile, store0, saved>>

\* The catch block without the finally block: isGenerating stays set
ColoringBookCatch_NoFinally(i, thrown) ==
  /\ error' = Some(thrown.message)
  /\ debugInfo' = ColoringBookDebugDetails(thrown)
  /\ imgReqs' = Remove(imgReqs, i)
  /\ imgOutcome' = "failed"
  /\ UNCHANGED <<originalImage, generatedImage, isGenerating, reads, textVars, storeVars,
                 editorVars, session, lastFile, store0, saved>>

\* The catch block starting the request over in place of finishing
ColoringBookCatch_Retries(i, thrown) ==
  /\ error' = Some(thrown.message)
  /\ debugInfo' = ColoringBookDebugDetails(thrown)
  /\ imgReqs' = [imgReqs EXCEPT ![i].stage = "blob"]
  /\ imgOutcome' = "failed"
  /\ UNCHANGED <<originalImage, generatedImage, isGenerating, reads, textVars, storeVars,
                 editorVars, session, lastFile, store0, saved>>

\* The catch and finally blocks of generateColoringBook, for request i
ColoringBookCatch(i, thrown) ==
  /\ error' = Some(thrown.message)
  /\ debugInfo' = ColoringBookDebugDetails(thrown)
  /\ isGenerating' = FALSE
  /\ imgReqs' = Remove(imgReqs, i)
  /\ imgOutcome' = "failed"
  /\ UNCHANGED <<originalImage, generatedImage, reads, textVars, storeVars, editorVars,
                 session, lastFile, store0, saved>>

\* fetch(originalImage) and response.blob() settle: the form data is built and the
\* API is called, or the fetch of the data URL rejects
BlobFetched(i) ==
  /\ app = "landing"
  /\ i \in 1..Len(imgReqs)
  /\ imgReqs[i].stage = "blob"
  /\ debugInfo' = <<"Calling API...">>
  /\ imgReqs' = [imgReqs EXCEPT ![i].stage = "api"]
  /\ UNCHANGED <<originalImage, generatedImage, isGenerating, error, reads, imgOutcome,
                 textVars, storeVars, editorVars, session, lastFile, store0, saved>>

BlobFailed(i) ==
  /\ app = "landing"
  /\ i \in 1..Len(imgReqs)
  /\ imgReqs[i].stage = "blob"
  /\ ColoringBookCatch(i, Thrown("TypeError", MsgFailedToFetch))

\* The settled fetch storing the source image the page holds now, not the one of
\* the call
ColoringBookSettled_CurrentSource(i, resp) ==
  /\ app = "landing"
  /\ i \in 1..Len(imgReqs)
  /\ imgReqs[i].stage = "api"
  /\ LET try == ColoringBookTry(resp)
         result == GenerationResult(Val(originalImage), try.image, now + 1)
     IN IF try.ok
          THEN /\ now - HistoryLimit < MaxSaves
               /\ generatedImage' = Some(try.image)
               /\ storage' = saveToHistory(storage, result)
               /\ now' = now + 1
               /\ appended' = Append(appended, result)
               /\ debugInfo' = <<"Generation successful! Time: ", try.time, "ms">>
               /\ isGenerating' = FALSE
               /\ imgReqs' = Remove(imgReqs, i)
               /\ imgOutcome' = "ok"
               /\ UNCHANGED <<originalImage, error, reads, textVars, editorVars, session, lastFile,
                              store0, saved>>
          ELSE ColoringBookCatch(i, try)

\* The fetch of /api/generate-coloring-book settles with resp: the rest of the
\* try block, then catch and finally
ColoringBookSettled(i, resp) ==
  /\ app = "landing"
  /\ i \in 1..Len(imgReqs)
  /\ imgReqs[i].stage = "api"
  /\ LET try == ColoringBookTry(resp)
         result == GenerationResult(imgReqs[i].orig, try.image, now + 1)
     IN IF try.ok
          THEN /\ now - HistoryLimit < MaxSaves
               /\ generatedImage' = Some(try.image)
               /\ storage' = saveToHistory(storage, result)
               /\ now' = now + 1
               /\ appended' = Append(appended, result)
               /\ debugInfo' = <<"Generation successful! Time: ", try.time, "ms">>
               /\ isGenerating' = FALSE
               /\ imgReqs' = Remove(imgReqs, i)
               /\ imgOutcome' = "ok"
               /\ UNCHANGED <<originalImage, error, reads, textVars, editorVars, session, lastFile,
                              store0, saved>>
          ELSE ColoringBookCatch(i, try)

\* downloadImage: saves generatedImage as coloring-book-<Date.now()>.png
downloadImage ==
  /\ app = "landing"
  /\ saved' = IF generatedImage = Null THEN saved
              ELSE Some(SavedFile("coloring-book", Val(generatedImage)))
  /\ UNCHANGED <<landingVars, editorVars, session, lastFile, store0>>

\* The button disabled without regard to isGenerating; the download button
\* rendered on the source image
GenerateDisabled_IgnoresBusy == originalImage = Null
DownloadShown_OnSource == originalImage # Null

\* What the page renders for the image pipeline
GenerateDisabled == originalImage = Null \/ isGenerating
DownloadShown == generatedImage # Null
ClickGenerate == ~GenerateDisabled /\ generateColoringBook
ClickDownload == DownloadShown /\ downloadImage

\* ------------------------------------------------------------ LandingPage: text pipeline
Prompts == {<<>>, <<" ">>, <<" ", "cat", " ">>}

\* The Textarea's onChange
setPromptText(value) ==
  /\ app = "landing"
  /\ promptText # value
  /\ promptText' = value
  /\ UNCHANGED <<textGeneratedImage, isGeneratingText, textError, textReqs, textOutcome,
                 imageVars, debugInfo, storeVars, editorVars, session, lastFile, store0, saved>>

\* The try block of generateFromText from the settled fetch on
TextTry(resp) ==
  LET result == resp.body IN
  IF ~resp.net THEN Thrown("TypeError", MsgFailedToFetch)
  ELSE IF result.kind = "text" THEN Thrown("SyntaxError", MsgJsonSyntax)
  ELSE IF ~HttpOk(resp.status) THEN
    Thrown("Error", IF TruthyStr(result.error) THEN Val(result.error)
                    ELSE MsgApiCallFailed(resp.status))
  ELSE IF TruthyBool(result.success) /\ TruthyStr(result.image) THEN
    Returned(IF ~StartsWith(Val(result.image), base64Prefix)
               THEN base64Prefix \o Val(result.image)
               ELSE Val(result.image),
             "")
  ELSE Thrown("Error", IF TruthyStr(result.error) THEN Val(result.error)
                       ELSE MsgGenerationFailed)

TextRequest(p) == [prompt |-> p]

\* generateFromText testing the prompt without trim()
generateFromText_NoTrim ==
  /\ app = "landing"
  /\ IF promptText = <<>>
       THEN /\ textError' = Some(MsgEnterDescription)
            /\ UNCHANGED <<isGeneratingText, debugInfo, textReqs>>
       ELSE /\ Len(textReqs) < MaxInFlight
            /\ isGeneratingText' = TRUE
            /\ textError' = Null
            /\ debugInfo' = <<"Generating line art from text...">>
            /\ textReqs' = Append(textReqs, TextRequest(promptText))
  /\ UNCHANGED <<promptText, textGeneratedImage, textOutcome, imageVars, storeVars,
                 editorVars, session, lastFile, store0, saved>>

\* generateFromText, up to its await
generateFromText ==
  /\ app = "landing"
  /\ IF Trim(promptText) = <<>>
       THEN /\ textError' = Some(MsgEnterDescription)
            /\ UNCHANGED <<isGeneratingText, debugInfo, textReqs>>
       ELSE /\ Len(textReqs) < MaxInFlight
            /\ isGeneratingText' = TRUE
            /\ textError' = Null
            /\ debugInfo' = <<"Generating line art from text...">>
            /\ textReqs' = Append(textReqs, TextRequest(promptText))
  /\ UNCHANGED <<promptText, textGeneratedImage, textOutcome, imageVars, storeVars,
                 editorVars, session, lastFile, store0, saved>>

\* The settled fetch of the text pipeline clearing the image pipeline's busy flag
\* and error with its own, as one pair of flags shared by the page would
TextSettled_SharedFlags(i, resp) ==
  /\ app = "landing"
  /\ i \in 1..Len(textReqs)
  /\ LET try == TextTry(resp)
     IN IF try.ok
          THEN /\ textGeneratedImage' = Some(try.image)
               /\ textOutcome' = "ok"
               /\ UNCHANGED <<textError, error>>
          ELSE /\ textError' = Some(try.message)
               /\ error' = Some(try.message)
               /\ textOutcome' = "failed"
               /\ UNCHANGED textGeneratedImage
  /\ isGeneratingText' = FALSE
  /\ isGenerating' = FALSE
  /\ textReqs' = Remove(textReqs, i)
  /\ UNCHANGED <<promptText, originalImage, generatedImage, reads, imgReqs, imgOutcome,
                 debugInfo, storeVars, editorVars, session, lastFile, store0, saved>>

\* The settled fetch of the text pipeline saving its result to the history as
\* the image pipeline does
TextSettled_SavesToHistory(i, resp) ==
  /\ app = "landing"
  /\ i \in 1..Len(textReqs)
  /\ LET try == TextTry(resp)
     IN IF try.ok
          THEN /\ textGeneratedImage' = Some(try.image)
               /\ textOutcome' = "ok"
               /\ storage' = saveToHistory(storage, GenerationResult(<<>>, try.image, now))
               /\ UNCHANGED textError
          ELSE /\ textError' = Some(try.message)
               /\ textOutcome' = "failed"
               /\ UNCHANGED <<textGeneratedImage, storage>>
  /\ isGeneratingText' = FALSE
  /\ textReqs' = Remove(textReqs, i)
  /\ UNCHANGED <<promptText, imageVars, debugInfo, now, appended, editorVars, session, lastFile, store0,
                 saved>>

\* The fetch of /api/generate-text-sketch settles with resp: the rest of the try
\* block, then catch and finally
TextSettled(i, resp) ==
  /\ app = "landing"
  /\ i \in 1..Len(textReqs)
  /\ LET try == TextTry(resp)
     IN IF try.ok
          THEN /\ textGeneratedImage' = Some(try.image)
               /\ textOutcome' = "ok"
               /\ UNCHANGED textError
          ELSE /\ textError' = Some(try.message)
               /\ textOutcome' = "failed"
               /\ UNCHANGED textGeneratedImage
  /\ isGeneratingText' = FALSE
  /\ textReqs' = Remove(textReqs, i)
  /\ UNCHANGED <<promptText, imageVars, debugInfo, storeVars, editorVars, session, lastFile, store0,
                 saved>>

\* The text card's download button: saves textGeneratedImage as text-sketch-<Date.now()>.png
downloadText ==
  /\ app = "landing"
  /\ textGeneratedImage # Null
  /\ saved' = Some(SavedFile("text-sketch", Val(textGeneratedImage)))
  /\ UNCHANGED <<landingVars, editorVars, session, lastFile, store0>>

\* What the page renders for the text pipeline
TextGenerateDisabled == Trim(promptText) = <<>> \/ isGeneratingText
TextDownloadShown == textGeneratedImage # Null
ClickGenerateText == ~TextGenerateDisabled /\ generateFromText
ClickDownloadText == TextDownloadShown /\ downloadText

\* ------------------------------------------------------------ AppEditor (index.tsx)
EditorModes == {"edit", "generate"}
ModelTypes == {"nano-banana", "nano-banana-pro"}
EditorPrompts == {"", "Make it cyberpunk style"}
ExampleImage == <<"https://picsum.photos/id/64/800/800">>
ExamplePrompt == "Turn this into a watercolor painting"
EditorFile == File(TypePng, 10, "A")

\* What ai.models.generateContent settles with: it rejects, or it resolves with
\* parts that hold no inlineData, or with a part that holds inlineData
EditorResponses == {"rejected", "text only", "inline data"}
\* generateImage from the settled call on: the data URI, or the Error thrown
generateImage(resp) ==
  IF resp = "rejected" THEN Thrown("Error", <<"generateContent failed">>)
  ELSE IF resp = "inline data"
    THEN Returned(<<"data:", "image/", "png", ";base64,">> \o <<"xyz">>, "")
  ELSE Thrown("Error", <<"No image generated. The model might have returned text only.">>)

setMode(m) ==
  /\ app = "editor"
  /\ mode # m
  /\ mode' = m
  /\ UNCHANGED <<model, prompt, uploadedImage, resultImage, isLoading, credits, edReads,
                 edReqs, landingVars, session, lastFile, store0, saved>>

setModel(m) ==
  /\ app = "editor"
  /\ model # m
  /\ model' = m
  /\ UNCHANGED <<mode, prompt, uploadedImage, resultImage, isLoading, credits, edReads,
                 edReqs, landingVars, session, lastFile, store0, saved>>

setPrompt(p) ==
  /\ app = "editor"
  /\ prompt # p
  /\ prompt' = p
  /\ UNCHANGED <<mode, model, uploadedImage, resultImage, isLoading, credits, edReads,
                 edReqs, landingVars, session, lastFile, store0, saved>>

\* The "Try Example" button, rendered while there is neither a result nor a request
TryExample ==
  /\ app = "editor"
  /\ resultImage = Null /\ ~isLoading
  /\ mode' = "edit"
  /\ uploadedImage' = Some(ExampleImage)
  /\ prompt' = ExamplePrompt
  /\ UNCHANGED <<model, resultImage, isLoading, credits, edReads, edReqs, landingVars,
                 session, lastFile, store0, saved>>

\* handleUpload: the file input is rendered in edit mode
handleUpload(sel) ==
  /\ app = "editor"
  /\ mode = "edit"
  /\ IF sel = Null
       THEN UNCHANGED edReads
       ELSE /\ Len(edReads) < MaxReads
            /\ edReads' = Append(edReads, Val(sel))
  /\ UNCHANGED <<mode, model, prompt, uploadedImage, resultImage, isLoading, credits,
                 edReqs, landingVars, session, lastFile, store0, saved>>

\* reader.onloadend: reader.result is the data URL, or null when the read failed
EditorReaderLoadEnd(i, ok) ==
  /\ app = "editor"
  /\ i \in 1..Len(edReads)
  /\ uploadedImage' = IF ok THEN Some(DataURL(edReads[i])) ELSE Null
  /\ edReads' = Remove(edReads, i)
  /\ UNCHANGED <<mode, model, prompt, resultImage, isLoading, credits, edReqs,
                 landingVars, session, lastFile, store0, saved>>

EditorRequest(p, m, source, md) == [prompt |-> p, model |-> m, source |-> source, mode |-> md]

\* handleGenerate, up to its await
handleGenerate ==
  /\ app = "editor"
  /\ Len(edReqs) < MaxInFlight
  /\ isLoading' = TRUE
  /\ edReqs' = Append(edReqs, EditorRequest(prompt, model, uploadedImage, mode))
  /\ UNCHANGED <<mode, model, prompt, uploadedImage, resultImage, credits, edReads,
                 landingVars, session, lastFile, store0, saved>>

\* The rest of handleGenerate charging for the model the picker shows when the
\* call settles
HandleGenerateSettled_CurrentModel(i, resp) ==
  /\ app = "editor"
  /\ i \in 1..Len(edReqs)
  /\ LET result == generateImage(resp)
     IN IF result.ok
          THEN /\ InitialCredits - credits < MaxSpent
               /\ resultImage' = Some(result.image)
               /\ credits' = credits - (IF model = "nano-banana-pro"
                                          THEN ProCost ELSE BasicCost)
          ELSE UNCHANGED <<resultImage, credits>>
  /\ isLoading' = FALSE
  /\ edReqs' = Remove(edReqs, i)
  /\ UNCHANGED <<mode, model, prompt, uploadedImage, edReads, landingVars, session, lastFile,
                 store0, saved>>

\* generateImage settles for request i: the rest of handleGenerate
HandleGenerateSettled(i, resp) ==
  /\ app = "editor"
  /\ i \in 1..Len(edReqs)
  /\ LET result == generateImage(resp)
     IN IF result.ok
          THEN /\ InitialCredits - credits < MaxSpent
               /\ resultImage' = Some(result.image)
               /\ credits' = credits - (IF edReqs[i].model = "nano-banana-pro"
                                          THEN ProCost ELSE BasicCost)
          ELSE UNCHANGED <<resultImage, credits>>  \* alert(...)
  /\ isLoading' = FALSE
  /\ edReqs' = Remove(edReqs, i)
  /\ UNCHANGED <<mode, model, prompt, uploadedImage, edReads, landingVars, session, lastFile,
                 store0, saved>>

\* The toolbar's download link, rendered while there is a result
EditorDownload ==
  /\ app = "editor"
  /\ resultImage # Null
  /\ saved' = Some(SavedFile("nano-banana", Val(resultImage)))
  /\ UNCHANGED <<editorVars, landingVars, session, lastFile, store0>>

\* What EditorSidebar renders
EditorGenerateDisabled == isLoading \/ prompt = "" \/ (mode = "edit" /\ uploadedImage = Null)
EditorClickGenerate == ~EditorGenerateDisabled /\ handleGenerate

\* ------------------------------------------------------------ specifications
\* The sessions explored.  Each fixes the root component and bounds what the
\* environment supplies: the files the user selects, the prompts typed, the
\* responses of the endpoints.
\*   "upload":   the image files, one response that reports a failure
\*   "generate": one file that passes validation and those that do not, every response
\*   "text":     every prompt, every response, no file
\*   "both":     one file, one prompt, two responses
\*   "compress": one file above the compression threshold, one response that succeeds
\*   "editor":   the AppEditor
\*   "direct":   one file that needs no compression and one that is no image, three
\*               responses (SpecCall only)
Sessions == {"upload", "generate", "text", "both", "compress", "editor"}
SmallFile == File(TypePng, CompressAboveMiB * MiB, "A")
LargerFile == File(TypePng, CompressAboveMiB * MiB + 1, "C")
FewResponses ==
  { Http(200, Body("object", Some(TRUE), Some(RawImage), Null, Some("42"))),
    Http(200, Body("object", Some(FALSE), Some(RawImage), Some(Boom), Null)) }
SessionFiles ==
  CASE session = "upload" -> {f \in Files : f.type = TypePng}
    [] session = "generate" -> {SmallFile} \cup {f \in Files : ValidateUpload(f) # Null}
    [] session = "direct" -> {SmallFile, File(TypeText, 10, "A")}
    [] session = "both" -> {SmallFile}
    [] session = "compress" -> {LargerFile}
    [] OTHER -> {}
SessionPrompts ==
  CASE session = "text" -> Prompts
    [] session = "both" -> {<<" ", "cat", " ">>}
    [] OTHER -> {}
SessionResponses ==
  CASE session \in {"generate", "text"} -> Responses
    [] session = "upload" -> {Http(200, Body("object", Some(FALSE), Some(RawImage), Some(Boom), Null))}
    [] session = "compress" -> {Http(200, Body("object", Some(TRUE), Some(RawImage), Null, Some("42")))}
    [] session = "direct" ->
         FewResponses \cup {Http(504, Body("object", Null, Null, Some(TimedOut), Null))}
    [] OTHER -> FewResponses
SessionSlots ==
  CASE session = "generate" -> InitialSlots
    [] OTHER -> {SlotAbsent}
Selections == {Null} \cup {Some(f) : f \in SessionFiles}

InitIn(sessions) ==
  /\ session \in sessions
  /\ originalImage = Null /\ generatedImage = Null /\ isGenerating = FALSE
  /\ error = Null /\ debugInfo = <<>>
  /\ promptText = <<>> /\ textGeneratedImage = Null /\ isGeneratingText = FALSE
  /\ textError = Null
  /\ storage \in SessionSlots
  /\ now = HistoryLimit
  /\ reads = <<>> /\ imgReqs = <<>> /\ textReqs = <<>>
  /\ mode = "edit" /\ model = "nano-banana" /\ prompt = "" /\ uploadedImage = Null
  /\ resultImage = Null /\ isLoading = FALSE /\ credits = InitialCredits
  /\ edReads = <<>> /\ edReqs = <<>>
  /\ saved = Null
  /\ imgOutcome = "none" /\ textOutcome = "none"
  /\ appended = <<>>
  /\ store0 = storage
  /\ lastFile = Null

\* What settles on its own in LandingPage: file reads, compressions, fetches
ReadCompletions ==
  \/ \E i \in 1..MaxReads + 1 : ReaderOnLoad(i)
  \/ \E i \in 1..MaxReads + 1 : ReaderOnError(i)
CompressCompletions ==
  \/ \E i \in 1..MaxReads + 1 : CompressResolved(i)
  \/ \E i \in 1..MaxReads + 1 : CompressRejected(i)
RequestCompletions ==
  \/ \E i \in 1..MaxInFlight + 1 : BlobFetched(i)
  \/ \E i \in 1..MaxInFlight + 1 : BlobFailed(i)
  \/ \E i \in 1..MaxInFlight + 1, resp \in SessionResponses : ColoringBookSettled(i, resp)
  \/ \E i \in 1..MaxInFlight + 1, resp \in SessionResponses : TextSettled(i, resp)

\* Input of LandingPage that no rendered control gates
LandingInputs ==
  \/ \E sel \in Selections : handleImageUpload(sel)
  \/ \E value \in SessionPrompts : setPromptText(value)

\* AppEditor: what settles on its own, the input, the rendered controls
EditorSteps ==
  \/ \E i \in 1..MaxReads + 1, ok \in BOOLEAN : EditorReaderLoadEnd(i, ok)
  \/ \E i \in 1..MaxInFlight + 1, resp \in EditorResponses : HandleGenerateSettled(i, resp)
  \/ \E m \in EditorModes : setMode(m)
  \/ \E m \in ModelTypes : setModel(m)
  \/ \E p \in EditorPrompts : setPrompt(p)
  \/ TryExample
  \/ \E sel \in {Null, Some(EditorFile)} : handleUpload(sel)
  \/ EditorClickGenerate
  \/ EditorDownload

Init == InitIn(Sessions)

\* A user session: the handlers run when the rendered, enabled controls are used
Next ==
  \/ LandingInputs
  \/ ReadCompletions
  \/ CompressCompletions
  \/ RequestCompletions
  \/ ClickGenerate
  \/ ClickDownload
  \/ ClickGenerateText
  \/ ClickDownloadText
  \/ EditorSteps
Spec == Init /\ [][Next]_vars

\* The handlers of LandingPage called directly, whatever the page renders
InitCall == InitIn({"direct", "text"})
NextCall ==
  \/ LandingInputs
  \/ ReadCompletions
  \/ RequestCompletions
  \/ generateColoringBook
  \/ downloadImage
  \/ generateFromText
  \/ downloadText
SpecCall == InitCall /\ [][NextCall]_vars

\* The user sessions in which every network call settles: each pipeline's pending
\* fetch resolves or rejects in the end
ImageFetchSettles ==
  \E i \in 1..MaxInFlight + 1 :
    \/ BlobFetched(i)
    \/ BlobFailed(i)
    \/ \E resp \in SessionResponses : ColoringBookSettled(i, resp)
TextFetchSettles ==
  \E i \in 1..MaxInFlight + 1, resp \in SessionResponses : TextSettled(i, resp)
EditorCallSettles ==
  \E i \in 1..MaxInFlight + 1, resp \in EditorResponses : HandleGenerateSettled(i, resp)
InitLive == InitIn({"both", "editor"})
NextLive ==
  \/ LandingInputs
  \/ ReadCompletions
  \/ RequestCompletions
  \/ ClickGenerate
  \/ ClickDownload
  \/ ClickGenerateText
  \/ ClickDownloadText
  \/ EditorSteps
SpecLive ==
  /\ InitLive /\ [][NextLive]_vars
  /\ WF_vars(ImageFetchSettles) /\ WF_vars(TextFetchSettles) /\ WF_vars(EditorCallSettles)

\* saveToHistory called directly with a result
HistoryGenerated == {PngImage, base64Prefix \o JpegImage}
SaveToHistoryCall(gen) ==
  /\ app = "landing"
  /\ now - HistoryLimit < MaxHistSaves
  /\ LET result == GenerationResult(DataURL(SmallFile), gen, now + 1)
     IN /\ storage' = saveToHistory(storage, result)
        /\ appended' = Append(appended, result)
  /\ now' = now + 1
  /\ UNCHANGED <<imageVars, debugInfo, textVars, editorVars, session, lastFile, store0, saved>>
NextHistory == \E gen \in HistoryGenerated : SaveToHistoryCall(gen)
SpecHistory == Init /\ [][NextHistory]_vars

\* ------------------------------------------------------------ properties
\* The responses that arrived and parsed, whose success flag is not true or
\* whose image field is absent
RejectedResponses ==
  {resp \in Responses :
     /\ resp.net
     /\ resp.body.kind = "object"
     /\ (resp.body.success # Some(TRUE) \/ resp.body.image = Null)}

\* C1: a settled response whose success flag is false or whose image is absent
\* never yields a success: in both pipelines the generated image stays as it
\* was, the pipeline's error becomes non-null, the pipeline is no longer busy,
\* and nothing is appended to the history.
C1_RejectedResponseFails ==
  [][/\ \A i \in 1..Len(imgReqs), resp \in RejectedResponses :
          ColoringBookSettled(i, resp) =>
            /\ generatedImage' = generatedImage
            /\ error' # Null
            /\ ~isGenerating'
            /\ storage' = storage /\ appended' = appended
     /\ \A i \in 1..Len(textReqs), resp \in RejectedResponses :
          TextSettled(i, resp) =>
            /\ textGeneratedImage' = textGeneratedImage
            /\ textError' # Null
            /\ ~isGeneratingText'
            /\ storage' = storage /\ appended' = appended]_vars
\* Both pipelines have settled a 200 response with success false and an image.
C1_Witness ==
  /\ session = "both"
  /\ imgOutcome = "failed" /\ error = Some(Boom) /\ generatedImage = Null
  /\ textOutcome = "failed" /\ textError = Some(Boom) /\ textGeneratedImage = Null
  /\ appended = <<>>

\* The responses whose status is not 2xx, and the message the claim C2 expects
\* for one
NonOkResponses == {resp \in Responses : resp.net /\ ~HttpOk(resp.status)}
NonOkMessage(resp) ==
  IF resp.body.kind = "object" /\ TruthyStr(resp.body.error)
    THEN Val(resp.body.error)
    ELSE MsgApiCallFailed(resp.status)
\* C2: for every response that is not 2xx, whatever its body, the pipeline ends
\* with the error equal to the server's error string when the body supplies
\* one and to "API call failed: <status>" otherwise, and the history is not
\* mutated.
C2_NonOkReportsStatus ==
  [][/\ \A i \in 1..Len(imgReqs), resp \in NonOkResponses :
          ColoringBookSettled(i, resp) =>
            /\ error' = Some(NonOkMessage(resp))
            /\ storage' = storage /\ appended' = appended
     /\ \A i \in 1..Len(textReqs), resp \in NonOkResponses :
          TextSettled(i, resp) =>
            /\ textError' = Some(NonOkMessage(resp))
            /\ storage' = storage /\ appended' = appended]_vars

\* A sequence back to front
Reverse(seq) == [i \in 1..Len(seq) |-> seq[Len(seq) + 1 - i]]
\* The records an empty or valid slot held when the session found it
StoredAtStart == IF store0.kind = "array" THEN store0.items ELSE <<>>
\* C3: starting from an empty or a valid store, after any sequence of
\* saveToHistory calls the store holds at most 10 records, the most recent
\* first, in the order of the calls: it is the first 10 of the appended results,
\* latest first, followed by what the store held before, so that 11 appends to
\* an empty store leave the 10 most recent.
C3_HistoryBounded ==
  (store0 \in {SlotAbsent, SlotFull} /\ appended # <<>>) =>
    /\ storage.kind = "array"
    /\ Len(storage.items) <= 10
    /\ storage.items = SubSeq(Reverse(appended) \o StoredAtStart, 1,
                              IF Len(appended) + Len(StoredAtStart) < 10
                                THEN Len(appended) + Len(StoredAtStart) ELSE 10)
    /\ \A i \in 1..Len(storage.items) - 1 :
         storage.items[i].timestamp > storage.items[i + 1].timestamp
\* Eleven results were appended to a store that was empty: the first is gone.
C3_Witness ==
  /\ store0 = SlotAbsent
  /\ Len(appended) = 11
  /\ Len(storage.items) = 10
  /\ storage.items[1] = appended[11]
  /\ storage.items[10] = appended[2]

\* The responses the handlers accept: 2xx, success true, an image
AcceptedResponses ==
  {resp \in Responses :
     /\ resp.net /\ resp.body.kind = "object" /\ HttpOk(resp.status)
     /\ resp.body.success = Some(TRUE) /\ resp.body.image # Null}
\* The image begins with "data:image/png;base64,"
HasPngPrefix(image) ==
  Len(image) >= 4 /\ SubSeq(image, 1, 4) = <<"data:", "image/", "png", ";base64,">>
\* The image with the prefix in front exactly once
WithPrefixOnce(image) ==
  IF HasPngPrefix(image)
    THEN image
    ELSE <<"data:", "image/", "png", ";base64,">> \o image
\* The generated images the page shows and those this session put in the history
ShownOrStored ==
  {Val(o) : o \in {generatedImage, textGeneratedImage} \ {Null}}
    \cup {appended[k].generatedImage : k \in 1..Len(appended)}
\* C4: every generated image that reaches the page or the history begins with
\* "data:image/png;base64,"; an accepted image that lacks the prefix gets it
\* prepended exactly once and one that has it is kept unchanged, so that
\* normalizing twice changes nothing.
C4_PngPrefix ==
  /\ [](\A image \in ShownOrStored : HasPngPrefix(image))
  /\ [][/\ \A i \in 1..Len(imgReqs), resp \in AcceptedResponses :
             ColoringBookSettled(i, resp) =>
               /\ generatedImage' = Some(WithPrefixOnce(Val(resp.body.image)))
               /\ WithPrefixOnce(Val(generatedImage')) = Val(generatedImage')
               /\ storage'.kind = "array" =>
                    storage'.items[1].generatedImage = Val(generatedImage')
        /\ \A i \in 1..Len(textReqs), resp \in AcceptedResponses :
             TextSettled(i, resp) =>
               /\ textGeneratedImage' = Some(WithPrefixOnce(Val(resp.body.image)))
               /\ WithPrefixOnce(Val(textGeneratedImage')) = Val(textGeneratedImage')]_vars
\* Both pipelines accepted raw base64 and show it with the prefix; the image
\* pipeline stored it.
C4_Witness ==
  /\ session = "both"
  /\ generatedImage = Some(<<"data:", "image/", "png", ";base64,", "abcd">>)
  /\ textGeneratedImage = generatedImage
  /\ storage.kind = "array"
  /\ storage.items[1].generatedImage = Val(generatedImage)

\* C5: the generated image the page shows or stores is a well-formed data URI,
\* whether the service returned raw base64, a PNG data URI, or a data URI of
\* another media type.
C5_WellFormedDataURI == \A image \in ShownOrStored : IsDataURI(image)

\* The prompt is empty or holds white space only
BlankPrompt(p) == \A k \in 1..Len(p) : p[k] = " "
\* C6: a generate handler called while its precondition fails (no source image;
\* a prompt that is empty or white space only) starts no request, leaves the
\* busy flag as it was, and sets the pipeline's missing-input message.
C6_FailedPreconditionStartsNothing ==
  [][/\ (originalImage = Null /\ generateColoringBook) =>
          /\ imgReqs' = imgReqs
          /\ isGenerating' = isGenerating /\ ~isGenerating'
          /\ error' = Some(<<"Please upload an image first">>)
     /\ (BlankPrompt(promptText) /\ generateFromText) =>
          /\ textReqs' = textReqs
          /\ isGeneratingText' = isGeneratingText
          /\ textError' = Some(<<"Please enter a description">>)]_vars
\* Both handlers were called with nothing to work on: no image, a prompt of
\* white space.
C6_Witness ==
  /\ originalImage = Null /\ error = Some(MsgUploadFirst)
  /\ promptText = <<" ">> /\ textError = Some(MsgEnterDescription)
  /\ imgReqs = <<>> /\ textReqs = <<>>
  /\ ~isGenerating /\ ~isGeneratingText

\* C7: each pipeline (image, text, editor) has at most one generation request
\* in flight, and has one exactly while its busy flag is set: generation cannot
\* start while the pipeline is busy.
C7_OneRequestInFlight ==
  /\ Len(imgReqs) = (IF isGenerating THEN 1 ELSE 0)
  /\ Len(textReqs) = (IF isGeneratingText THEN 1 ELSE 0)
  /\ Len(edReqs) = (IF isLoading THEN 1 ELSE 0)
\* The image and the text pipeline are both busy, one request each.
C7_Witness ==
  /\ isGenerating /\ Len(imgReqs) = 1
  /\ isGeneratingText /\ Len(textReqs) = 1

\* The state of a pipeline is Success: its most recent attempt succeeded and no
\* attempt is in progress
ImageSuccess == imgOutcome = "ok" /\ ~isGenerating
TextSuccess == textOutcome = "ok" /\ ~isGeneratingText
\* C8 as stated: the download of a pipeline's generated image is available only
\* while the pipeline is in Success.
C8_DownloadOnlyInSuccess ==
  /\ DownloadShown => ImageSuccess
  /\ TextDownloadShown => TextSuccess
\* C8, amended: the download of a pipeline's generated image becomes available
\* only by the pipeline's step to Success, and then stays available, through
\* later attempts in progress or failed, for as long as the page holds that
\* image; a download saves the image held and changes no state of the page.
C8_DownloadWhileImageHeld ==
  /\ [][/\ (~DownloadShown /\ DownloadShown') =>
             (isGenerating /\ ImageSuccess' /\ Len(appended') = Len(appended) + 1)
        /\ (~TextDownloadShown /\ TextDownloadShown') =>
             (isGeneratingText /\ TextSuccess')
        /\ (DownloadShown /\ ~DownloadShown') =>
             (originalImage' # originalImage \/ Len(reads') < Len(reads))
        /\ TextDownloadShown => TextDownloadShown'
        /\ ClickDownload =>
             /\ saved' = Some(SavedFile("coloring-book", Val(generatedImage)))
             /\ UNCHANGED <<landingVars, editorVars>>
        /\ ClickDownloadText =>
             /\ saved' = Some(SavedFile("text-sketch", Val(textGeneratedImage)))
             /\ UNCHANGED <<landingVars, editorVars>>]_vars
\* The image was downloaded although the attempt after the one that produced it
\* failed.
C8_Witness ==
  /\ DownloadShown /\ imgOutcome = "failed" /\ error # Null
  /\ saved = Some(SavedFile("coloring-book", Val(generatedImage)))

\* What the upload rule says of a file: its type begins with "image/", and its
\* size is at most 5 MiB
IsImageType(file) == Len(file.type) >= 1 /\ file.type[1] = "image/"
WithinLimit(file) == file.size <= 5 * 1024 * 1024
Selected == {Some(file) : file \in Files}
\* C9: handleImageUpload accepts a file exactly when its type begins with
\* "image/" and its size is at most 5 * 1024 * 1024 bytes: a file of exactly
\* 5 MiB is accepted, one byte more is rejected as too large, and a file that
\* is no image is rejected as of invalid type whatever its size.
C9_UploadAcceptance ==
  [][\A sel \in Selected :
       handleImageUpload(sel) =>
         LET file == Val(sel) IN
         /\ (IsImageType(file) /\ WithinLimit(file)) <=>
              (reads' = Append(reads, ReadTask(file, "reading")) /\ error' = error)
         /\ ~IsImageType(file) => error' = Some(<<"Please select a valid image file">>)
         /\ (IsImageType(file) /\ ~WithinLimit(file)) =>
              error' = Some(<<"Image file size cannot exceed 5MB">>)]_vars
\* A file of exactly 5 MiB is being read after a file one byte larger was
\* rejected as too large.
C9_Witness ==
  /\ error = Some(MsgTooLarge)
  /\ \E k \in 1..Len(reads) : reads[k].file.size = 5 * 1024 * 1024

\* C10: a rejected upload leaves the source image, the generated image, the busy
\* flag and the history unchanged; only the error is set; no file read and no
\* compression is started.
C10_RejectedUploadChangesOnlyError ==
  [][\A sel \in Selected :
       (handleImageUpload(sel) /\ ~(IsImageType(Val(sel)) /\ WithinLimit(Val(sel)))) =>
         /\ error' # Null
         /\ UNCHANGED <<originalImage, generatedImage, isGenerating, storage, appended>>
         /\ UNCHANGED <<reads, imgReqs, debugInfo, textVars, editorVars>>]_vars
\* A file that is no image was rejected while the page held a source image and
\* a generated image, with a request in progress.
C10_Witness ==
  /\ error = Some(MsgInvalidType)
  /\ originalImage # Null /\ generatedImage # Null /\ isGenerating
  /\ storage.kind = "array"

\* A step that completes the upload of reads[i]: reader.onload of a file used as
\* read, or the compression of a larger one settling either way
UploadCompletes(i) ==
  \/ ReaderOnLoad(i) /\ Len(reads') < Len(reads)
  \/ CompressResolved(i)
  \/ CompressRejected(i)
\* What the upload of a file may hand to setOriginalImage: the payload as read,
\* or its JPEG re-encoding
ProcessedUploads(file) ==
  {<<"data:">> \o file.type \o <<";base64,", file.data>>,
   <<"data:", "image/", "jpeg", ";base64,", "jpeg:", "0.8", "1024", file.data>>}
\* C11: when a valid upload completes, the source image becomes the processed
\* upload and the image pipeline's generated image and error are cleared; the
\* text pipeline's prompt, result, error and busy flag are unchanged.
C11_UploadCompletion ==
  [][\A i \in 1..Len(reads) :
       UploadCompletes(i) =>
         /\ originalImage' # Null
         /\ Val(originalImage') \in ProcessedUploads(reads[i].file)
         /\ generatedImage' = Null
         /\ error' = Null
         /\ UNCHANGED <<promptText, textGeneratedImage, textError, isGeneratingText>>]_vars
\* An upload completed after a generation had succeeded, while the text pipeline
\* held a result and was busy again: the generated image is gone, the text
\* pipeline is as it was.
C11_Witness ==
  /\ originalImage # Null /\ generatedImage = Null /\ error = Null
  /\ appended # <<>> /\ reads = <<>>
  /\ textGeneratedImage # Null /\ isGeneratingText

\* The payload of a file as FileReader encodes it, and its JPEG re-encoding at
\* quality 0.8, at most 1024 wide
AsRead(file) == <<"data:">> \o file.type \o <<";base64,", file.data>>
Compressed(file) == <<"data:", "image/", "jpeg", ";base64,", "jpeg:", "0.8", "1024", file.data>>
\* C12: for a valid file of at most 1024 * 1024 bytes the compressor is never
\* invoked and the source image becomes the payload as read; the compressor is
\* invoked only for files strictly larger, and always with quality 0.8 and
\* maximal width 1024.
C12_CompressionThreshold ==
  /\ [](\A k \in 1..Len(reads) :
          reads[k].stage = "compressing" => reads[k].file.size > 1024 * 1024)
  /\ [][\A i \in 1..Len(reads) :
          /\ ReaderOnLoad(i) =>
               IF reads[i].file.size <= 1024 * 1024
                 THEN /\ originalImage' = Some(AsRead(reads[i].file))
                      /\ reads' = Remove(reads, i)
                 ELSE /\ reads' = [reads EXCEPT ![i].stage = "compressing"]
                      /\ originalImage' = originalImage
          /\ CompressResolved(i) =>
               /\ reads[i].file.size > 1024 * 1024
               /\ originalImage' = Some(Compressed(reads[i].file))]_vars
\* The file of exactly 1 MiB was taken as read, and the file one byte larger
\* awaits its compression.
C12_Witness ==
  /\ originalImage = Some(<<"data:", "image/", "png", ";base64,", "A">>)
  /\ \E k \in 1..Len(reads) :
       reads[k].stage = "compressing" /\ reads[k].file.size = 1024 * 1024 + 1

\* C13: when the compression of a valid file larger than 1 MiB fails, the upload
\* still completes: the source image becomes the payload as read, the generated
\* image and the error are cleared as for any valid upload, and no error
\* message is shown.
C13_CompressionFailureFallsBack ==
  [][\A i \in 1..Len(reads) :
       CompressRejected(i) =>
         /\ reads[i].file.size > 1024 * 1024
         /\ originalImage' = Some(AsRead(reads[i].file))
         /\ generatedImage' = Null
         /\ error' = Null
         /\ reads' = Remove(reads, i)
         /\ UNCHANGED <<isGenerating, textVars, storage>>]_vars
\* After a generation had succeeded, a second upload of the file fell back to
\* the payload as read: no generated image, no error.
C13_Witness ==
  /\ session = "compress"
  /\ originalImage = Some(<<"data:", "image/", "png", ";base64,", "C">>)
  /\ debugInfo = <<"Image uploaded", "(uncompressed)">>
  /\ generatedImage = Null /\ error = Null
  /\ appended # <<>>

\* C14: every record a successful image generation appends to the history pairs
\* the normalized generated image with the source image sent in that request
\* (the compressed one when the upload exceeded 1 MiB), even when a new upload
\* replaced the source image while the request was in flight.
C14_RecordPairsSentSource ==
  [][\A i \in 1..Len(imgReqs), resp \in AcceptedResponses :
       ColoringBookSettled(i, resp) =>
         /\ Len(appended') = Len(appended) + 1
         /\ appended'[Len(appended')].originalImage = imgReqs[i].orig
         /\ appended'[Len(appended')].generatedImage = WithPrefixOnce(Val(resp.body.image))
         /\ storage.kind \in {"absent", "unparsable", "array"} =>
              /\ storage'.kind = "array"
              /\ storage'.items[1] = appended'[Len(appended')]]_vars
\* The answer "abcd" to a request that sent the compressed upload arrived after
\* a second upload had replaced the source image by the payload as read: the
\* record stored holds the compressed image.
C14_Witness ==
  /\ storage.kind = "array"
  /\ storage.items[1].originalImage = Compressed(LargerFile)
  /\ storage.items[1].generatedImage = <<"data:", "image/", "png", ";base64,", "abcd">>
  /\ originalImage = Some(AsRead(LargerFile))
  /\ generatedImage = Some(storage.items[1].generatedImage)

\* C15: the stored history is changed only by a successful image generation: no
\* action of the text pipeline, successful or failed, no upload, no download
\* and no failed image generation changes it.
C15_HistoryChangedOnlyByImageSuccess ==
  [][/\ storage' # storage =>
          \E i \in 1..Len(imgReqs), resp \in AcceptedResponses : ColoringBookSettled(i, resp)
     /\ (textVars' # textVars \/ reads' # reads \/ originalImage' # originalImage
           \/ saved' # saved \/ error' # error) => storage' = storage]_vars
\* The text pipeline succeeded, its result was downloaded, and a later attempt
\* failed: the slot is as the session found it.
C15_Witness ==
  /\ textGeneratedImage # Null /\ textOutcome = "failed"
  /\ saved = Some(SavedFile("text-sketch", Val(textGeneratedImage)))
  /\ storage = store0

\* The steps in which something fails
UploadRejected ==
  \E sel \in Selected :
    handleImageUpload(sel) /\ ~(IsImageType(Val(sel)) /\ WithinLimit(Val(sel)))
ReadFailed == \E i \in 1..Len(reads) : ReaderOnError(i)
ImageInputMissing == originalImage = Null /\ generateColoringBook
TextInputMissing == BlankPrompt(promptText) /\ generateFromText
RefusedResponses == Responses \ AcceptedResponses
ImageGenerationFailed ==
  /\ imgReqs' # imgReqs
  /\ \E i \in 1..Len(imgReqs) :
       BlobFailed(i) \/ \E resp \in RefusedResponses : ColoringBookSettled(i, resp)
TextGenerationFailed ==
  /\ textReqs' # textReqs
  /\ \E i \in 1..Len(textReqs), resp \in RefusedResponses : TextSettled(i, resp)
\* The debug text is a trace of a failure with this message: the type of the
\* error, its message, the time
TraceOf(trace, message) ==
  /\ Len(trace) >= Len(message) + 5
  /\ trace[1] = "Error type: " /\ trace[2] \in {"Error", "TypeError", "SyntaxError"}
  /\ trace[3] = "Error message: "
  /\ SubSeq(trace, 4, Len(message) + 3) = message
  /\ trace[Len(message) + 4] = "Time: "
\* A token occurs in a message
Mentions(message, token) == \E k \in 1..Len(message) : message[k] = token

C17_UnreadableSlotIsEmpty ==
  /\ store0.kind \in {"absent", "unparsable"} =>
       loadHistory(store0) = [isArray |-> TRUE, items |-> <<>>]
  /\ (store0.kind \in {"absent", "unparsable"} /\ Len(appended) = 1) =>
       storage = [kind |-> "array", items |-> <<appended[1]>>]
\* One record was appended to a slot whose content could not be parsed.
C17_Witness ==
  /\ store0 = SlotUnparsable
  /\ Len(appended) = 1
  /\ storage.kind = "array" /\ storage.items = appended

\* The requests of the image pipeline that have called the API
ApiCalls(reqs) == {k \in 1..Len(reqs) : reqs[k].stage = "api"}
\* C18: generation is single-attempt: a request comes into being only by the
\* user's generate action, one per action; it calls its endpoint once; and a
\* failure ends it without another request being sent.
C18_SingleAttempt ==
  [][/\ Len(imgReqs') > Len(imgReqs) => (ClickGenerate /\ Len(imgReqs') = Len(imgReqs) + 1)
     /\ Len(textReqs') > Len(textReqs) =>
          (ClickGenerateText /\ Len(textReqs') = Len(textReqs) + 1)
     /\ Len(edReqs') > Len(edReqs) => (EditorClickGenerate /\ Len(edReqs') = Len(edReqs) + 1)
     /\ Cardinality(ApiCalls(imgReqs')) > Cardinality(ApiCalls(imgReqs)) =>
          \E i \in 1..Len(imgReqs) :
            imgReqs[i].stage = "blob" /\ imgReqs' = [imgReqs EXCEPT ![i].stage = "api"]
     /\ ImageGenerationFailed =>
          /\ Len(imgReqs') = Len(imgReqs) - 1
          /\ Cardinality(ApiCalls(imgReqs')) <= Cardinality(ApiCalls(imgReqs))
     /\ TextGenerationFailed => Len(textReqs') = Len(textReqs) - 1
     /\ (imgOutcome' = "failed" /\ imgOutcome # "failed") => imgReqs' = <<>>]_vars
\* Both pipelines failed and neither has a request in flight.
C18_Witness ==
  /\ imgOutcome = "failed" /\ error # Null /\ imgReqs = <<>> /\ ~isGenerating
  /\ textOutcome = "failed" /\ textError # Null /\ textReqs = <<>> /\ ~isGeneratingText

\* C19: when every network call settles, every generation that enters Busy
\* leaves it: the busy flag of the image pipeline, of the text pipeline and of
\* the editor is cleared on the success and on the failure path, and the image
\* pipeline's generate button is enabled again.
C19_BusyEventuallyCleared ==
  /\ isGenerating ~> (~isGenerating /\ ~GenerateDisabled)
  /\ isGeneratingText ~> ~isGeneratingText
  /\ isLoading ~> ~isLoading
\* Both pipelines of the page have left Busy, the image pipeline by a failure
\* and the text pipeline by a success.
C19_Witness ==
  /\ imgOutcome = "failed" /\ ~isGenerating /\ ~GenerateDisabled
  /\ textOutcome = "ok" /\ ~isGeneratingText

\* What the page shows of each pipeline: its generated image, its error message
\* and its busy flag
ImageShown == <<generatedImage, error, isGenerating>>
TextShown == <<textGeneratedImage, textError, isGeneratingText>>
\* C20: the image and the text pipeline are independent. A step that changes
\* any state of the text pipeline (its prompt, its request, its result) leaves
\* the image pipeline's generated image, error message and busy flag as they
\* were, and a step that changes any state of the image pipeline (its source,
\* its file read, its request, its result) leaves the text pipeline's; a
\* pipeline's start needs only its own busy flag clear.
C20_PipelinesIndependent ==
  [][/\ textVars' # textVars => ImageShown' = ImageShown
     /\ imageVars' # imageVars => TextShown' = TextShown
     /\ Len(imgReqs') > Len(imgReqs) => isGeneratingText' = isGeneratingText
     /\ Len(textReqs') > Len(textReqs) => isGenerating' = isGenerating]_vars
\* Both pipelines are Busy at once, the text pipeline on its second request
\* with the image of its first still shown, the image pipeline on its first.
C20_Witness ==
  /\ isGenerating /\ imgReqs # <<>> /\ imgOutcome = "none" /\ generatedImage = Null
  /\ isGeneratingText /\ textReqs # <<>> /\ textOutcome = "ok" /\ textGeneratedImage # Null

\* The source images derived from a file: the file as read, or its compression
DerivedFrom(file) == {AsRead(file), Compressed(file)}
\* C21: once the uploads have settled (no file read or compression is pending,
\* and none has failed since the last selection), the source image is the one
\* derived from the file selected last.
C21_LastUploadWins ==
  (reads = <<>> /\ lastFile # Null) =>
    (originalImage # Null /\ Val(originalImage) \in DerivedFrom(Val(lastFile)))

\* The source image sent in the request of the last successful image generation
LastSentSource == appended[Len(appended)].originalImage
\* C22: whenever no image generation is in flight and a generated image is held,
\* the generated image was produced from the source image held now: it is the
\* result of the last successful request, and that request sent the current
\* source image.
C22_ResultMatchesSource ==
  (~isGenerating /\ generatedImage # Null) =>
    /\ appended # <<>>
    /\ Val(generatedImage) = appended[Len(appended)].generatedImage
    /\ originalImage = Some(LastSentSource)

\* What a success costs for the model a request was invoked with
CostOf(m) == IF m = "nano-banana-pro" THEN 10 ELSE 2
\* C23: in the editor the credit counter starts at 250 and changes only when a
\* generation succeeds. A request records the model selected when generate was
\* invoked; its success subtracts 10 for nano-banana-pro and 2 otherwise,
\* whatever the picker shows by then; a failed generation leaves the credit
\* counter and the result image unchanged.
C23_CreditsChargedOnSuccess ==
  /\ credits = 250
  /\ [][/\ Len(edReqs') > Len(edReqs) => edReqs'[Len(edReqs')].model = model
        /\ edReqs' # edReqs =>
             \A i \in 1..Len(edReqs) :
               /\ HandleGenerateSettled(i, "inline data") =>
                    /\ credits' = credits - CostOf(edReqs[i].model)
                    /\ resultImage' # Null
               /\ \A resp \in EditorResponses \ {"inline data"} :
                    HandleGenerateSettled(i, resp) =>
                      credits' = credits /\ resultImage' = resultImage
        /\ credits' # credits =>
             \E i \in 1..Len(edReqs) : HandleGenerateSettled(i, "inline data")]_vars
\* After one success of nano-banana, a request invoked with nano-banana-pro is
\* in flight and the picker is back on nano-banana.
C23_Witness ==
  /\ credits = InitialCredits - BasicCost /\ resultImage # Null
  /\ isLoading /\ Len(edReqs) = 1 /\ edReqs[1].model = "nano-banana-pro"
  /\ model = "nano-banana"

=============================================================================
